---------------------------- MODULE Spec2Model ----------------------------
(***************************************************************************)
(* Model of simple_server.py: an HTTPServer on port 8000 whose handler     *)
(* class ESP32RequestHandler counts POST requests in the class variable    *)
(* message_count, logs each POST and answers it, and answers every GET     *)
(* with a status page.                                                     *)
(*                                                                         *)
(* Text is modelled as sequences of code points, request bodies as         *)
(* sequences of bytes (0..255).                                            *)
(***************************************************************************)
EXTENDS Integers, Sequences, FiniteSets

(***************************************************************************)
(* Bounds of the model.                                                    *)
(***************************************************************************)
\* requests dispatched in one run of the server
MaxRequests == 3
\* bytes in a request body of the general workload
MaxBodyLen == 2
\* characters in an X-ESP32-Uptime-MS value of the uptime workload
MaxHdrLen == 4
\* lines in a request body of the line-scan workload
MaxLines == 6
\* requests dispatched in one run of the uptime and line-scan workloads
MaxPureRequests == 1
\* handler slots (requests that could be in flight at once)
NConns == 2

Conns == 1..NConns

(***************************************************************************)
(* Generic helpers on sequences.                                           *)
(***************************************************************************)
Min(a, b) == IF a <= b THEN a ELSE b

SeqsUpTo(S, n) == UNION {[1..k -> S] : k \in 0..n}

RECURSIVE Pow10(_)
Pow10(k) == IF k = 0 THEN 1 ELSE 10 * Pow10(k - 1)

\* str(n) for n >= 0: the decimal digits of n
RECURSIVE IntToStr(_)
IntToStr(n) == IF n < 10 THEN <<48 + n>>
               ELSE IntToStr(n \div 10) \o <<48 + (n % 10)>>

IsDigit(ch) == ch >= 48 /\ ch <= 57

\* value of a non-empty sequence of decimal digits
RECURSIVE DigitsValue(_)
DigitsValue(s) == IF s = <<>> THEN 0
                  ELSE 10 * DigitsValue(SubSeq(s, 1, Len(s) - 1)) + (s[Len(s)] - 48)

AllDigits(s) == s # <<>> /\ \A i \in 1..Len(s) : IsDigit(s[i])

(***************************************************************************)
(* Headers.  A header is present with a value, or absent.                  *)
(***************************************************************************)
Absent == [present |-> FALSE, value |-> <<>>]
Hdr(v) == [present |-> TRUE, value |-> v]

\* the sentinel 'N/A' of lines 25-26
NA == <<78, 47, 65>>

\* self.headers.get(name, default) for a default that is text
HeaderGet(h, default) == IF h.present THEN h.value ELSE default

(***************************************************************************)
(* int(self.headers.get('Content-Length', 0)), line 19.  int() of text     *)
(* takes an optional sign and decimal digits and raises ValueError on      *)
(* anything else; int(0), the default of an absent header, is 0.           *)
(***************************************************************************)
ParseInt(s) ==
    LET neg  == s # <<>> /\ s[1] = 45
        sgn  == s # <<>> /\ s[1] \in {43, 45}
        rest == IF sgn THEN SubSeq(s, 2, Len(s)) ELSE s
    IN  IF AllDigits(rest)
        THEN [ok |-> TRUE, value |-> IF neg THEN 0 - DigitsValue(rest) ELSE DigitsValue(rest)]
        ELSE [ok |-> FALSE, value |-> 0]

ContentLength(h) == IF h.present THEN ParseInt(h.value) ELSE [ok |-> TRUE, value |-> 0]

(***************************************************************************)
(* self.rfile.read(content_length), line 22: at most content_length bytes  *)
(* of what the client sent; -1 reads to the end of the stream, a smaller   *)
(* length raises ValueError, a reset connection raises                     *)
(* ConnectionResetError.                                                   *)
(***************************************************************************)
ReadBody(body, n, sock) ==
    IF sock = "reset" \/ n < -1 THEN [ok |-> FALSE, bytes |-> <<>>]
    ELSE IF n = -1 THEN [ok |-> TRUE, bytes |-> body]
    ELSE [ok |-> TRUE, bytes |-> SubSeq(body, 1, Min(n, Len(body)))]

(***************************************************************************)
(* bytes.decode('utf-8'), line 22: strict UTF-8.  Sequences of one to four *)
(* bytes give one code point each; an invalid lead byte, a missing or      *)
(* stray continuation byte, an overlong form, a surrogate or a value above *)
(* U+10FFFF raises UnicodeDecodeError.  A byte starts a character exactly  *)
(* when it is no continuation byte, so the text is decoded lead byte by    *)
(* lead byte.                                                              *)
(***************************************************************************)
IsCont(b) == b >= 128 /\ b <= 191

\* the number of bytes the lead byte announces, 0 for a byte that starts nothing
Utf8Len(b1) ==
    IF b1 < 128 THEN 1
    ELSE IF b1 >= 194 /\ b1 <= 223 THEN 2
    ELSE IF b1 >= 224 /\ b1 <= 239 THEN 3
    ELSE IF b1 >= 240 /\ b1 <= 244 THEN 4
    ELSE 0

CodePointAt(bs, i) ==
    LET n == Utf8Len(bs[i])
    IN  IF n = 1 THEN bs[i]
        ELSE IF n = 2 THEN (bs[i] - 192) * 64 + (bs[i + 1] - 128)
        ELSE IF n = 3 THEN (bs[i] - 224) * 4096 + (bs[i + 1] - 128) * 64 + (bs[i + 2] - 128)
        ELSE (bs[i] - 240) * 262144 + (bs[i + 1] - 128) * 4096
             + (bs[i + 2] - 128) * 64 + (bs[i + 3] - 128)

WellFormedAt(bs, i) ==
    LET n == Utf8Len(bs[i])
    IN  /\ n # 0
        /\ i + n - 1 <= Len(bs)
        /\ \A j \in (i + 1)..(i + n - 1) : IsCont(bs[j])
        /\ i + n <= Len(bs) => ~IsCont(bs[i + n])
        /\ LET cp == CodePointAt(bs, i)
           IN  /\ n = 3 => cp >= 2048 /\ ~(cp >= 55296 /\ cp <= 57343)
               /\ n = 4 => cp >= 65536 /\ cp <= 1114111

Utf8Decode(bs) ==
    LET IsLead(i) == ~IsCont(bs[i])
        leads     == SelectSeq([i \in 1..Len(bs) |-> i], IsLead)
        ok        == /\ bs # <<>> => ~IsCont(bs[1])
                     /\ \A k \in 1..Len(leads) : WellFormedAt(bs, leads[k])
    IN  IF ok THEN [ok |-> TRUE, chars |-> [k \in 1..Len(leads) |-> CodePointAt(bs, leads[k])]]
        ELSE [ok |-> FALSE, chars |-> <<>>]

(***************************************************************************)
(* float(esp32_uptime) / 1000 if esp32_uptime != 'N/A' else 0, lines       *)
(* 27-28.  float() of a decimal integer with an optional sign is that      *)
(* number, and ValueError is raised on text that is no number.  The value  *)
(* is kept exact as sign, numerator and denominator; the sign is kept      *)
(* apart because float('-0') is -0.0.                                      *)
(***************************************************************************)
ParseFloat(s) ==
    LET neg  == s # <<>> /\ s[1] = 45
        sgn  == s # <<>> /\ s[1] \in {43, 45}
        rest == IF sgn THEN SubSeq(s, 2, Len(s)) ELSE s
    IN  IF AllDigits(rest)
        THEN [ok |-> TRUE, neg |-> neg, num |-> DigitsValue(rest)]
        ELSE [ok |-> FALSE, neg |-> FALSE, num |-> 0]

MsPerSecond == 1000

UptimeSeconds(esp32_uptime) ==
    IF esp32_uptime # NA
    THEN LET f == ParseFloat(esp32_uptime)
         IN  [ok |-> f.ok, neg |-> f.neg, num |-> f.num, den |-> MsPerSecond]
    ELSE [ok |-> TRUE, neg |-> FALSE, num |-> 0, den |-> 1]

(***************************************************************************)
(* f"{uptime_seconds:.3f}", lines 41 and 79: the value rounded to three    *)
(* decimal places, the integer part, a point and three digits.  A whole    *)
(* number of milliseconds is a whole number of thousandths, so the         *)
(* rounding never has a remainder to decide here.                          *)
(***************************************************************************)
Decimals == 3

Pad(ds, width) == [i \in 1..(width - Len(ds)) |-> 48] \o ds

FormatFixed(neg, num, den, places) ==
    LET scaled == num * Pow10(places)
        q      == scaled \div den
        r      == scaled % den
        units  == IF 2 * r > den \/ (2 * r = den /\ q % 2 = 1) THEN q + 1 ELSE q
    IN  (IF neg THEN <<45>> ELSE <<>>)
        \o IntToStr(units \div Pow10(places))
        \o <<46>>
        \o Pad(IntToStr(units % Pow10(places)), places)

\* variant: two decimal places
FormatUptimeTwoPlaces(u) == FormatFixed(u.neg, u.num, u.den, Decimals - 1)

FormatUptime(u) == FormatFixed(u.neg, u.num, u.den, Decimals)

(***************************************************************************)
(* The scan for changing data, lines 59-68.                                *)
(***************************************************************************)
\* post_data.split('\n'): the pieces between line feeds, at least one piece
RECURSIVE SplitLines(_)
SplitLines(s) ==
    IF \A i \in 1..Len(s) : s[i] # 10 THEN <<s>>
    ELSE LET k == CHOOSE i \in 1..Len(s) : s[i] = 10 /\ \A j \in 1..(i - 1) : s[j] # 10
         IN  <<SubSeq(s, 1, k - 1)>> \o SplitLines(SubSeq(s, k + 1, Len(s)))

\* str.lower() on the letters A-Z; other code points are kept
LowerChar(ch) == IF ch >= 65 /\ ch <= 90 THEN ch + 32 ELSE ch
Lower(s) == [i \in 1..Len(s) |-> LowerChar(s[i])]

\* keyword in line
Contains(line, kw) ==
    \E i \in 0..(Len(line) - Len(kw)) : SubSeq(line, i + 1, i + Len(kw)) = kw

\* 'counter', 'uptime', 'random', 'hash', 'heap', 'message number'
Keywords ==
    << <<99, 111, 117, 110, 116, 101, 114>>,
       <<117, 112, 116, 105, 109, 101>>,
       <<114, 97, 110, 100, 111, 109>>,
       <<104, 97, 115, 104>>,
       <<104, 101, 97, 112>>,
       <<109, 101, 115, 115, 97, 103, 101, 32, 110, 117, 109, 98, 101, 114>> >>

\* any(keyword in line.lower() for keyword in [...]), line 62
HasKeyword(line) == \E k \in 1..Len(Keywords) : Contains(Lower(line), Keywords[k])

\* the characters str.strip() removes
IsSpace(ch) == ch \in {9, 10, 11, 12, 13, 28, 29, 30, 31, 32, 133, 160}

RECURSIVE LStrip(_)
LStrip(s) == IF s # <<>> /\ IsSpace(s[1]) THEN LStrip(Tail(s)) ELSE s

RECURSIVE RStrip(_)
RStrip(s) == IF s # <<>> /\ IsSpace(s[Len(s)]) THEN RStrip(SubSeq(s, 1, Len(s) - 1)) ELSE s

\* line.strip(), line 63
Strip(s) == RStrip(LStrip(s))

\* the loop of lines 60-63: changing_data
RECURSIVE Collect(_)
Collect(lines) ==
    IF lines = <<>> THEN <<>>
    ELSE (IF HasKeyword(Head(lines)) THEN <<Strip(Head(lines))>> ELSE <<>>)
         \o Collect(Tail(lines))

\* changing_data[:5], line 67
ShownLimit == 5

\* variant: no cap on the lines shown
ShownAll(changing_data) == changing_data

Shown(changing_data) == SubSeq(changing_data, 1, Min(ShownLimit, Len(changing_data)))

ChangingData(post_data) == Shown(Collect(SplitLines(post_data)))

\* len(post_data), line 56: the number of characters of the decoded text
MessageLength(post_data) == Len(post_data)

(***************************************************************************)
(* Requests.  A request is what the HTTP layer hands to the handler: the   *)
(* method, the path, the headers the handler reads, the bytes the client   *)
(* sent as body, and whether the connection is reset while the body is     *)
(* read.                                                                   *)
(***************************************************************************)
Paths == {"/", "/status"}

Request(m, p, cl, b, up, ctr, sk) ==
    [method |-> m, path |-> p, cl |-> cl, body |-> b, uptime |-> up,
     counter |-> ctr, sock |-> sk]

NoRequest == Request("none", "/", Absent, <<>>, Absent, Absent, "ok")

GetRequests == {Request("GET", p, Absent, <<>>, Absent, Absent, "ok") : p \in Paths}

\* general workload: 'h', and the two bytes of U+00E9, in any order
ByteAlphabet == {104, 195, 169}
Bodies == SeqsUpTo(ByteAlphabet, MaxBodyLen)
\* Content-Length: absent, the length of the body, or 'x'
LengthHeaders(b) == {Absent, Hdr(IntToStr(Len(b))), Hdr(<<120>>)}
\* X-ESP32-Uptime-MS: absent, '2500' or 'x'
UptimeHeaders == {Absent, Hdr(<<50, 53, 48, 48>>), Hdr(<<120>>)}
\* X-ESP32-Message-Counter: absent or '7'
CounterHeaders == {Absent, Hdr(<<55>>)}

PostRequests(b) ==
    {Request("POST", "/", t[1], b, t[2], t[3], t[4]) :
        t \in LengthHeaders(b) \X UptimeHeaders \X CounterHeaders \X {"ok", "reset"}}

Requests == GetRequests \cup UNION {PostRequests(b) : b \in Bodies}

\* uptime workload: header values over '0', '2', '5' and 'x'
UptimeAlphabet == {48, 50, 53, 120}
UptimeRequests ==
    GetRequests \cup
    {Request("POST", "/", Absent, <<>>, up, Absent, "ok") :
        up \in {Absent, Hdr(NA)} \cup {Hdr(v) : v \in SeqsUpTo(UptimeAlphabet, MaxHdrLen)}}

\* line-scan workload: line i of a body is ' Heap: i' + CR or 'ok i',
\* the lines are joined by line feeds (CRLF line ends after the first kind)
ScanLine(kind, i) ==
    IF kind = "changing"
    THEN <<32, 72, 101, 97, 112, 58, 32>> \o IntToStr(i) \o <<13>>
    ELSE <<111, 107, 32>> \o IntToStr(i)

RECURSIVE JoinLines(_, _)
JoinLines(kinds, i) ==
    IF i = Len(kinds) THEN ScanLine(kinds[i], i)
    ELSE ScanLine(kinds[i], i) \o <<10>> \o JoinLines(kinds, i + 1)

ScanBodies ==
    {JoinLines(kinds, 1) : kinds \in UNION {[1..k -> {"changing", "plain"}] : k \in 1..MaxLines}}
ScanRequests ==
    GetRequests \cup
    {Request("POST", "/", Hdr(IntToStr(Len(b))), b, Absent, Absent, "ok") : b \in ScanBodies}

(***************************************************************************)
(* State.                                                                  *)
(***************************************************************************)
VARIABLES
    message_count,  \* ESP32RequestHandler.message_count
    serverState,    \* "serving": inside httpd.serve_forever(); "closed": after it
    socketOpen,     \* the listening socket of httpd
    exitStatus,     \* "running", or "success" once run_server has returned
    pc,             \* per handler slot: "idle", or the next part of do_POST
    request,        \* per handler slot: the request being handled
    locals,         \* per handler slot: the local variables of do_POST
    log,            \* what the handler of the last dispatched request printed
    response,       \* what the handler of the last dispatched request sent
    nreq,           \* history: requests dispatched
    posts,          \* history: POST requests dispatched
    faults,         \* history: handlers ended by an exception
    totals,         \* history: the totals sent in POST responses, in order
    interrupted     \* history: KeyboardInterrupt was raised

vars == <<message_count, serverState, socketOpen, exitStatus, pc, request, locals,
          log, response, nreq, posts, faults, totals, interrupted>>

NoLocals == [post_data |-> <<>>, nread |-> 0, esp32_counter |-> <<>>,
             uptime_seconds |-> [ok |-> TRUE, neg |-> FALSE, num |-> 0, den |-> 1],
             own |-> 0]

NoLog == [kind |-> "none", header_count |-> 0, received_count |-> 0,
          esp32_counter |-> <<>>, uptime |-> <<>>, path |-> "/", length |-> 0,
          nread |-> 0, changing |-> <<>>, own |-> 0, uptime_header |-> Absent]

NoResponse == [kind |-> "none", status |-> 0, ctype |-> "", esp32_counter |-> <<>>,
               total |-> 0, uptime |-> <<>>, own |-> 0, uptime_header |-> Absent]

\* message_count = 0, line 13; run_server up to serve_forever, lines 110-120
Init ==
    /\ message_count = 0
    /\ serverState = "serving"
    /\ socketOpen = TRUE
    /\ exitStatus = "running"
    /\ pc = [c \in Conns |-> "idle"]
    /\ request = [c \in Conns |-> NoRequest]
    /\ locals = [c \in Conns |-> NoLocals]
    /\ log = NoLog
    /\ response = NoResponse
    /\ nreq = 0
    /\ posts = 0
    /\ faults = 0
    /\ totals = <<>>
    /\ interrupted = FALSE

(***************************************************************************)
(* The serve loop, line 111 and line 120: HTTPServer handles one request   *)
(* at a time, the next one only after the handler of the last has          *)
(* returned.  An exception a handler raises is caught by the loop, which   *)
(* closes that connection and goes on.                                     *)
(***************************************************************************)
\* variant: a threading server, which dispatches while a handler is active
CanDispatchThreaded == \E c \in Conns : pc[c] = "idle"

CanDispatch == \A c \in Conns : pc[c] = "idle"

FreeSlot == CHOOSE c \in Conns : pc[c] = "idle" /\ \A d \in Conns : pc[d] = "idle" => c <= d

\* variant: a handler's exception ends the serve loop
StateAfterFaultStopped == "closed"

StateAfterFault == "serving"

\* ESP32RequestHandler.message_count += 1, line 16
\* variant: the request is counted twice
NextCountTwice(n) == n + 2

NextCount(n) == n + 1

(***************************************************************************)
(* do_POST, lines 15-16: the handler is entered and counts the request.    *)
(***************************************************************************)
PostStart(req, limit) ==
    /\ serverState = "serving"
    /\ CanDispatch
    /\ nreq < limit
    /\ req.method = "POST"
    /\ LET c == FreeSlot IN
        /\ message_count' = NextCount(message_count)
        /\ pc' = [pc EXCEPT ![c] = "parse"]
        /\ request' = [request EXCEPT ![c] = req]
        /\ locals' = [locals EXCEPT ![c] = [NoLocals EXCEPT !.own = NextCount(message_count)]]
    /\ log' = NoLog
    /\ response' = NoResponse
    /\ nreq' = nreq + 1
    /\ posts' = posts + 1
    /\ UNCHANGED <<serverState, socketOpen, exitStatus, faults, totals, interrupted>>

(***************************************************************************)
(* do_POST, lines 19-28: the length, the body, the headers, the uptime.    *)
(* Any of int(), read(), decode() and float() may raise; the exception     *)
(* leaves do_POST, and nothing is logged or sent.                          *)
(***************************************************************************)
Parsed(req) ==
    LET content_length == ContentLength(req.cl)
        raw            == ReadBody(req.body, content_length.value, req.sock)
        post_data      == Utf8Decode(raw.bytes)
        esp32_counter  == HeaderGet(req.counter, NA)
        esp32_uptime   == HeaderGet(req.uptime, NA)
        uptime_seconds == UptimeSeconds(esp32_uptime)
    IN  [ok |-> content_length.ok /\ raw.ok /\ post_data.ok /\ uptime_seconds.ok,
         post_data |-> post_data.chars,
         nread |-> Len(raw.bytes),
         esp32_counter |-> esp32_counter,
         uptime_seconds |-> uptime_seconds]

PostParse(c) ==
    /\ pc[c] = "parse"
    /\ LET p == Parsed(request[c]) IN
        IF p.ok
        THEN /\ locals' = [locals EXCEPT ![c] =
                    [post_data |-> p.post_data, nread |-> p.nread,
                     esp32_counter |-> p.esp32_counter,
                     uptime_seconds |-> p.uptime_seconds, own |-> locals[c].own]]
             /\ pc' = [pc EXCEPT ![c] = "log"]
             /\ UNCHANGED <<request, faults, serverState>>
        ELSE /\ locals' = [locals EXCEPT ![c] = NoLocals]
             /\ request' = [request EXCEPT ![c] = NoRequest]
             /\ pc' = [pc EXCEPT ![c] = "idle"]
             /\ faults' = faults + 1
             /\ serverState' = StateAfterFault
    /\ UNCHANGED <<message_count, socketOpen, exitStatus, log, response, nreq, posts,
                   totals, interrupted>>

(***************************************************************************)
(* do_POST, lines 31-70: the log record.                                   *)
(***************************************************************************)
PostLog(c) ==
    /\ pc[c] = "log"
    /\ log' = [kind |-> "post",
               header_count |-> message_count,
               received_count |-> message_count,
               esp32_counter |-> locals[c].esp32_counter,
               uptime |-> FormatUptime(locals[c].uptime_seconds),
               path |-> request[c].path,
               length |-> MessageLength(locals[c].post_data),
               nread |-> locals[c].nread,
               changing |-> ChangingData(locals[c].post_data),
               own |-> locals[c].own,
               uptime_header |-> request[c].uptime]
    /\ pc' = [pc EXCEPT ![c] = "respond"]
    /\ UNCHANGED <<message_count, serverState, socketOpen, exitStatus, request, locals,
                   response, nreq, posts, faults, totals, interrupted>>

(***************************************************************************)
(* do_POST, lines 73-80: the response; the handler returns.                *)
(***************************************************************************)
PostContentType == "text/plain"

\* variant: the total from before the increment
ReportedTotalStale(count) == count - 1

\* {ESP32RequestHandler.message_count} of line 77
ReportedTotal(count) == count

PostRespond(c) ==
    /\ pc[c] = "respond"
    /\ response' = [kind |-> "post", status |-> 200, ctype |-> PostContentType,
                    esp32_counter |-> locals[c].esp32_counter,
                    total |-> ReportedTotal(message_count),
                    uptime |-> FormatUptime(locals[c].uptime_seconds),
                    own |-> locals[c].own,
                    uptime_header |-> request[c].uptime]
    /\ totals' = Append(totals, ReportedTotal(message_count))
    /\ pc' = [pc EXCEPT ![c] = "idle"]
    /\ request' = [request EXCEPT ![c] = NoRequest]
    /\ locals' = [locals EXCEPT ![c] = NoLocals]
    /\ UNCHANGED <<message_count, serverState, socketOpen, exitStatus, log, nreq, posts,
                   faults, interrupted>>

(***************************************************************************)
(* do_GET, lines 82-102.                                                   *)
(***************************************************************************)
GetContentType == "text/html"

\* variant: do_GET counts the request too
CountAfterGetBumped(n) == n + 1

\* do_GET never assigns message_count
CountAfterGet(n) == n

DoGet(req, limit) ==
    /\ serverState = "serving"
    /\ CanDispatch
    /\ nreq < limit
    /\ req.method = "GET"
    /\ log' = [NoLog EXCEPT !.kind = "get", !.path = req.path]
    /\ response' = [NoResponse EXCEPT !.kind = "get", !.status = 200,
                                      !.ctype = GetContentType]
    /\ message_count' = CountAfterGet(message_count)
    /\ nreq' = nreq + 1
    /\ UNCHANGED <<serverState, socketOpen, exitStatus, pc, request, locals, posts,
                   faults, totals, interrupted>>

(***************************************************************************)
(* run_server, lines 119-123: KeyboardInterrupt leaves serve_forever,      *)
(* wherever the process is, the listening socket is closed and run_server  *)
(* returns, which ends the process with status 0.                          *)
(***************************************************************************)
\* variant: the listening socket is left open
ServerCloseForgotten == TRUE

\* the listening socket after httpd.server_close(), line 123
ServerClose == FALSE

Interrupt ==
    /\ serverState = "serving"
    /\ serverState' = "closed"
    /\ socketOpen' = ServerClose
    /\ exitStatus' = "success"
    /\ interrupted' = TRUE
    /\ pc' = [c \in Conns |-> "idle"]
    /\ request' = [c \in Conns |-> NoRequest]
    /\ locals' = [c \in Conns |-> NoLocals]
    /\ UNCHANGED <<message_count, log, response, nreq, posts, faults, totals>>

Handle(reqs, limit) ==
    \/ \E req \in reqs : PostStart(req, limit)
    \/ \E req \in reqs : DoGet(req, limit)
    \/ \E c \in Conns : PostParse(c)
    \/ \E c \in Conns : PostLog(c)
    \/ \E c \in Conns : PostRespond(c)
    \/ Interrupt

\* the server under the general workload
Next == Handle(Requests, MaxRequests)
Spec == Init /\ [][Next]_vars

\* the server under the uptime workload
NextUptime == Handle(UptimeRequests, MaxPureRequests)
SpecUptime == Init /\ [][NextUptime]_vars

\* the server under the line-scan workload
NextScan == Handle(ScanRequests, MaxPureRequests)
SpecScan == Init /\ [][NextScan]_vars

(***************************************************************************)
(* Properties.                                                             *)
(***************************************************************************)
Idle == \A c \in Conns : pc[c] = "idle"

\* C1: Server Counter is 0 at start and always equals the number of POST
\* requests received so far: every do_POST raises it by exactly 1 as its
\* first action, malformed or not, and nothing decrements or resets it.
C1_CounterCountsPosts ==
    /\ message_count = posts
    /\ (nreq = 0 => message_count = 0)

\* a malformed POST was counted, and a later POST too
C1_Witness == faults >= 1 /\ message_count >= 2 /\ totals # <<>>

\* C2: with only valid POST requests so far (and any GET requests in
\* between), the total in the response to the Nth POST is N.
C2_NthResponseReportsN ==
    faults = 0 => \A i \in 1..Len(totals) : totals[i] = i

\* two valid POSTs and a GET were handled; the second response reported 2
C2_Witness == faults = 0 /\ Len(totals) = 2 /\ totals[2] = 2 /\ nreq = 3
              /\ response.kind = "post" /\ response.total = 2

\* C3: a POST with a malformed or missing Content-Length, a body that is not
\* UTF-8 or a non-numeric X-ESP32-Uptime-MS is not aborted: on an intact
\* connection the handler gets past lines 19-28 with defaults in place and
\* goes on to log and to answer with HTTP 200.
C3_MalformedPostAnswered ==
    [][\A c \in Conns :
          (pc[c] = "parse" /\ request[c].sock = "ok" /\ pc'[c] # "parse" /\ ~interrupted')
              => pc'[c] = "log"]_vars

\* C4: a GET to any path is answered with 200 and text/html and leaves
\* Server Counter as it was.
C4_GetLeavesCounter ==
    [][(nreq' = nreq + 1 /\ posts' = posts)
        => /\ response'.kind = "get"
           /\ response'.status = 200
           /\ response'.ctype = "text/html"
           /\ message_count' = message_count]_vars

\* a GET to /status was answered after a POST had been counted
C4_Witness == response.kind = "get" /\ response.status = 200 /\ log.path = "/status"
              /\ message_count >= 1

\* C5: an error raised while a request is handled stays local: the server
\* keeps running (until it is interrupted) and later POSTs are still handled
\* and counted.
C5_FaultsStayLocal ==
    faults > 0 =>
        /\ interrupted \/ (serverState = "serving" /\ socketOpen /\ exitStatus = "running")
        /\ message_count = posts
        /\ (response.kind = "post" => response.status = 200 /\ response.total = posts)

\* a POST was answered after another POST's handler had raised
C5_Witness == faults >= 1 /\ ~interrupted /\ response.kind = "post"
              /\ response.status = 200 /\ response.total = 2

\* C6: the server serves until it is interrupted; the interrupt leaves the
\* serve loop, closes the listening socket and ends the process with a
\* success status, and nothing is handled after that.
C6_InterruptShutsDown ==
    /\ (serverState = "closed") <=> interrupted
    /\ serverState = "serving" => socketOpen /\ exitStatus = "running"
    /\ serverState = "closed" => ~socketOpen /\ exitStatus = "success" /\ Idle
                                 /\ ~ENABLED Next

\* the server was interrupted while a POST was being handled, after it had
\* answered a request
C6_Witness == serverState = "closed" /\ ~socketOpen /\ nreq >= 2
              /\ posts > faults + Len(totals)

\* C9: requests are never interleaved: at most one handler is active, the
\* total in the log and in the response of a POST is the value its own
\* increment produced, and no two POSTs report the same total.
C9_NoInterleaving ==
    /\ Cardinality({c \in Conns : pc[c] # "idle"}) <= 1
    /\ \A c \in Conns : pc[c] # "idle" => locals[c].own = message_count
    /\ log.kind = "post" => log.header_count = log.own /\ log.received_count = log.own
    /\ response.kind = "post" => response.total = response.own
    /\ \A i, j \in 1..Len(totals) : i # j => totals[i] # totals[j]

\* a second POST was logged and answered with its own total
C9_Witness == log.kind = "post" /\ response.kind = "post" /\ log.own = 2
              /\ response.own = 2 /\ Len(totals) = 2

\* C10: the message length in the log of a POST is the number of bytes of
\* the payload that was read.
C10_LengthIsBytesRead ==
    log.kind = "post" => log.length = log.nread

\* m / 1000 with three decimal places, for an integer m >= 0
MillisAsSeconds(m) ==
    IntToStr(m \div 1000)
    \o <<46, 48 + ((m \div 100) % 10), 48 + ((m \div 10) % 10), 48 + (m % 10)>>

ShowsUptime(header, text) ==
    /\ ~header.present => text = <<48, 46, 48, 48, 48>>
    /\ (header.present /\ AllDigits(header.value))
          => text = MillisAsSeconds(DigitsValue(header.value))

\* C7: for an X-ESP32-Uptime-MS of m milliseconds (a non-negative integer)
\* the log and the response show m/1000 with 3 decimal places, without the
\* header both show 0.000, and the log and the response of one POST agree.
C7_UptimeShown ==
    /\ log.kind = "post" => ShowsUptime(log.uptime_header, log.uptime)
    /\ response.kind = "post" => ShowsUptime(response.uptime_header, response.uptime)
    /\ (log.kind = "post" /\ response.kind = "post") => log.uptime = response.uptime

\* X-ESP32-Uptime-MS: 2500 was logged and answered as 2.500
C7_Witness ==
    /\ response.kind = "post"
    /\ response.uptime_header = Hdr(<<50, 53, 48, 48>>)
    /\ response.uptime = <<50, 46, 53, 48, 48>>
    /\ log.uptime = <<50, 46, 53, 48, 48>>

(***************************************************************************)
(* The payload lines, stated by position: line k lies between the          *)
(* (k-1)th and the kth line feed.                                          *)
(***************************************************************************)
LineFeeds(s) == {i \in 1..Len(s) : s[i] = 10}
NumLines(s) == Cardinality(LineFeeds(s)) + 1
NthLineFeed(s, k) == CHOOSE i \in LineFeeds(s) : Cardinality({j \in LineFeeds(s) : j < i}) = k - 1
PayloadLine(s, k) ==
    SubSeq(s, IF k = 1 THEN 1 ELSE NthLineFeed(s, k - 1) + 1,
              IF k = NumLines(s) THEN Len(s) ELSE NthLineFeed(s, k) - 1)

Matches(line) ==
    \E k \in 1..Len(Keywords) : \E i \in 0..Len(line) :
        /\ i + Len(Keywords[k]) <= Len(line)
        /\ \A j \in 1..Len(Keywords[k]) : LowerChar(line[i + j]) = Keywords[k][j]

MatchingLines(s) == {k \in 1..NumLines(s) : Matches(PayloadLine(s, k))}
NthMatch(s, n) ==
    CHOOSE k \in MatchingLines(s) : Cardinality({j \in MatchingLines(s) : j < k}) = n - 1

\* t is line without its leading and trailing white space
Trimmed(line, t) ==
    \E a \in 1..(Len(line) + 1) : \E b \in 0..Len(line) :
        /\ t = SubSeq(line, a, b)
        /\ \A i \in 1..(a - 1) : IsSpace(line[i])
        /\ \A i \in (b + 1)..Len(line) : IsSpace(line[i])
        /\ t # <<>> => ~IsSpace(t[1]) /\ ~IsSpace(t[Len(t)])

Scanned(c) == pc[c] = "respond" /\ log.kind = "post"

\* C8, as stated: the scan logs exactly the matching payload lines, in
\* order, the first 5 of them when more match.
C8_LogsMatchingLines ==
    \A c \in Conns : Scanned(c) =>
        LET s == locals[c].post_data IN
        /\ Len(log.changing) = Min(5, Cardinality(MatchingLines(s)))
        /\ \A n \in 1..Len(log.changing) : log.changing[n] = PayloadLine(s, NthMatch(s, n))

\* C8, amended: the scan logs the matching payload lines, each without its
\* leading and trailing white space, in order, the first 5 of them when
\* more match.
C8_LogsTrimmedMatchingLines ==
    \A c \in Conns : Scanned(c) =>
        LET s == locals[c].post_data IN
        /\ Len(log.changing) = Min(5, Cardinality(MatchingLines(s)))
        /\ \A n \in 1..Len(log.changing) :
              Trimmed(PayloadLine(s, NthMatch(s, n)), log.changing[n])

\* six lines, all but the first matched, and the five were logged trimmed,
\* 'Heap: 2' first and 'Heap: 6' last
C8_Witness ==
    \E c \in Conns :
        /\ Scanned(c)
        /\ NumLines(locals[c].post_data) = 6
        /\ MatchingLines(locals[c].post_data) = 2..6
        /\ Len(log.changing) = 5
        /\ log.changing[1] = <<72, 101, 97, 112, 58, 32, 50>>
        /\ log.changing[5] = <<72, 101, 97, 112, 58, 32, 54>>

=============================================================================
